---------------------------- MODULE Spec2Model ----------------------------
(***************************************************************************)
(* Model of FEA/FEA_cable_collide_1.py: a straight-line script that builds *)
(* a cable of ANCF beam elements in a mesh, anchors its first node to a    *)
(* fixed body, configures solver and timestepper and then runs the         *)
(* Irrlicht render/step loop.                                              *)
(*                                                                         *)
(* Every statement of the script that changes state is one action; pc is   *)
(* the line number of the next statement.  Objects live on small heaps     *)
(* (nodes, elements, materials) and are referred to by their index, so     *)
(* that "the same object" is distinguishable from "an equal object".       *)
(*                                                                         *)
(* Decimal literals are kept exactly as <<mantissa, exponent>>, meaning    *)
(* mantissa * 10^exponent: 0.01 is <<1, -2>>, -9.81 is <<-981, -2>>.       *)
(*                                                                         *)
(* The two literals of lines 78-79 (length, N_nodes) are the script's      *)
(* configuration; the model draws them from small sets that contain the    *)
(* values written in the source (1.2 and 16).                              *)
(***************************************************************************)
EXTENDS Integers, Sequences, FiniteSets, TLC

VARIABLES
    pc,             \* line of the next statement, "done" or "error"
    err,            \* name of the uncaught Python exception, "" if none
    env,            \* module namespace for the scalars: length, N_nodes, i_ni, ie
    iter,           \* position of the hidden iterator of the running for loop
    system,         \* the ChSystemNSC object
    mesh,           \* the ChMesh object
    materials,      \* heap of ChBeamSectionCable objects
    beam_material,  \* reference (heap index) held by the name beam_material, 0 = unbound
    nodes,          \* heap of ChNodeFEAxyzD objects
    node,           \* reference held by the name node, 0 = unbound
    beam_nodes,     \* the Python list beam_nodes (references into nodes)
    elements,       \* heap of ChElementCableANCF objects
    element,        \* reference held by the name element, 0 = unbound
    truss,          \* the ChBody truss
    constraint_pos, \* the ChLinkPointFrame
    solver,         \* the ChSolverMINRES object
    application,    \* the ChIrrApp object
    run,            \* last value returned by GetDevice().run(): "none", "true", "false"
    trace,          \* calls made on the application since the last run()
    nSteps,         \* number of DoStep calls made
    stepResult      \* outcome of the solver in the last DoStep

vars == <<pc, err, env, iter, system, mesh, materials, beam_material, nodes,
          node, beam_nodes, elements, element, truss, constraint_pos, solver,
          application, run, trace, nSteps, stepResult>>

-----------------------------------------------------------------------------
(* Bounds of the model *)

\* largest small node count tried besides the source's 16
MaxNodes == 4

\* the device's run() returns true at most this many times
MaxSteps == 3

\* node counts the configuration is drawn from: negative, zero, one, the
\* small valid ones and the value of the source
NodeCounts == (-1 .. MaxNodes) \cup {16}

\* cable lengths the configuration is drawn from: zero and the source's 1.2
Lengths == { <<0, 0>>, <<12, -1>> }

-----------------------------------------------------------------------------
(* Python helpers *)

\* len(range(n))
RangeLen(n) == IF n > 0 THEN n ELSE 0

\* does s[i] raise IndexError for a Python list s
IndexError(s, i) == ~ (-Len(s) <= i /\ i < Len(s))

\* s[i] for a Python list s (negative indices count from the end)
PyIndex(s, i) == IF i >= 0 THEN s[i + 1] ELSE s[Len(s) + i + 1]

\* d[k] = v in a namespace
Bind(d, k, v) == [x \in (DOMAIN d) \cup {k} |-> IF x = k THEN v ELSE d[x]]

-----------------------------------------------------------------------------
(* Statement order *)

\* Variant: DoStep is called before the scene is drawn
Program_stepBeforeDraw ==
    << "L42", "L43", "L48", "L50", "L59", "L60", "L61", "L62", "L76", "L78",
       "L79", "L80", "L82", "L93", "L96", "L108", "L110", "L113", "L116",
       "L119", "L135", "L136", "L137", "L140", "L141", "L142", "L183",
       "L190", "L206", "L207", "L208", "L209", "L210", "L213", "L221",
       "L243", "L244", "L247", "L249", "L260", "L252", "L255", "L263" >>

\* Variant: the loop is entered before the solver, the timestepper and the
\* step size are configured
Program_loopBeforeSolver ==
    << "L42", "L43", "L48", "L50", "L59", "L60", "L61", "L62", "L76", "L78",
       "L79", "L80", "L82", "L93", "L96", "L108", "L110", "L113", "L116",
       "L119", "L135", "L136", "L137", "L140", "L141", "L142", "L183",
       "L190", "L221", "L247", "L249", "L252", "L255", "L260", "L263",
       "L206", "L207", "L208", "L209", "L210", "L213", "L243", "L244" >>

\* the statements of the script in textual order; the for and while headers
\* (lines 80, 108, 247) branch, every other statement falls through
Program ==
    << "L42", "L43", "L48", "L50", "L59", "L60", "L61", "L62", "L76", "L78",
       "L79", "L80", "L82", "L93", "L96", "L108", "L110", "L113", "L116",
       "L119", "L135", "L136", "L137", "L140", "L141", "L142", "L183",
       "L190", "L206", "L207", "L208", "L209", "L210", "L213", "L221",
       "L243", "L244", "L247", "L249", "L252", "L255", "L260", "L263" >>

\* the statement that textually follows l
Succ(l) ==
    LET i == CHOOSE k \in 1 .. Len(Program) : Program[k] = l
    IN  IF i < Len(Program) THEN Program[i + 1] ELSE "done"

\* the statements of the body of the while loop and its header
LoopLines == {"L247", "L249", "L252", "L255", "L260", "L263"}


-----------------------------------------------------------------------------
(* Literals of the script *)

\* chrono.ChVectorD(0, -9.81, 0)
G_ACC == << <<0, 0>>, <<-981, -2>>, <<0, 0>> >>

\* SetDiameter(0.01), SetYoungModulus(0.01e9), SetBeamRaleyghDamping(0.01)
DIAMETER == <<1, -2>>
YOUNG_MODULUS == <<1, 7>>
RALEYGH_DAMPING == <<1, -2>>

\* SetMaxIterations(200), SetTolerance(1e-10)
MAX_ITERATIONS == 200
TOLERANCE == <<1, -10>>

\* SetTimestep(0.01)
TIMESTEP == <<1, -2>>

\* the solver a fresh ChSystemNSC carries (comment of line 201) and the one
\* the script installs
DefaultSolver == "SOR"
SolverType == "MINRES"

\* the timestepper a fresh system carries (comment of line 213: "default")
\* and the one the script selects
DefaultTimestepper == "EULER_IMPLICIT_LINEARIZED"
TimestepperType == "EULER_IMPLICIT_LINEARIZED"

\* Variant: the last node is locked instead of the first
AnchorIndex_last == Len(beam_nodes) - 1

\* the node of beam_nodes that is locked to the truss
AnchorIndex == 0

-----------------------------------------------------------------------------
(* Initial state: nothing has been executed, no name is bound *)

Init ==
    /\ pc = "L42"
    /\ err = ""
    /\ env = [x \in {} |-> 0]
    /\ iter = 0
    /\ system = [created |-> FALSE, G_acc |-> <<>>, items |-> <<>>,
                 solver |-> "", timestepper |-> ""]
    /\ mesh = [created |-> FALSE, nodes |-> <<>>, elements |-> <<>>,
               assets |-> <<>>]
    /\ materials = <<>>
    /\ beam_material = 0
    /\ nodes = <<>>
    /\ node = 0
    /\ beam_nodes = <<>>
    /\ elements = <<>>
    /\ element = 0
    /\ truss = [created |-> FALSE, fixed |-> FALSE]
    /\ constraint_pos = [created |-> FALSE, node |-> 0, body |-> ""]
    /\ solver = [created |-> FALSE, maxIterations |-> 0, tolerance |-> <<>>,
                 warmStart |-> FALSE]
    /\ application = [created |-> FALSE, system |-> FALSE, timestep |-> <<>>,
                      tryRealtime |-> FALSE]
    /\ run = "none"
    /\ trace = <<>>
    /\ nSteps = 0
    /\ stepResult = "none"

\* an uncaught exception ends the script
Raise(e) == pc' = "error" /\ err' = e

\* fall through to the next statement
Go == pc' = Succ(pc) /\ err' = err

-----------------------------------------------------------------------------
(* 1.-3. system, mesh, material *)

\* system = chrono.ChSystemNSC()
NewSystem ==
    /\ pc = "L42"
    /\ system' = [created |-> TRUE, G_acc |-> <<>>, items |-> <<>>,
                  solver |-> DefaultSolver, timestepper |-> DefaultTimestepper]
    /\ Go
    /\ UNCHANGED <<env, iter, mesh, materials, beam_material, nodes, node,
                   beam_nodes, elements, element, truss, constraint_pos,
                   solver, application, run, trace, nSteps, stepResult>>

\* system.Set_G_acc(chrono.ChVectorD(0, -9.81, 0))
Set_G_acc ==
    /\ pc = "L43"
    /\ system' = [system EXCEPT !.G_acc = G_ACC]
    /\ Go
    /\ UNCHANGED <<env, iter, mesh, materials, beam_material, nodes, node,
                   beam_nodes, elements, element, truss, constraint_pos,
                   solver, application, run, trace, nSteps, stepResult>>

\* mesh = fea.ChMesh()
NewMesh ==
    /\ pc = "L48"
    /\ mesh' = [created |-> TRUE, nodes |-> <<>>, elements |-> <<>>,
                assets |-> <<>>]
    /\ Go
    /\ UNCHANGED <<env, iter, system, materials, beam_material, nodes, node,
                   beam_nodes, elements, element, truss, constraint_pos,
                   solver, application, run, trace, nSteps, stepResult>>

\* system.Add(mesh)
AddMesh ==
    /\ pc = "L50"
    /\ system' = [system EXCEPT !.items = Append(@, "mesh")]
    /\ Go
    /\ UNCHANGED <<env, iter, mesh, materials, beam_material, nodes, node,
                   beam_nodes, elements, element, truss, constraint_pos,
                   solver, application, run, trace, nSteps, stepResult>>

\* beam_material = fea.ChBeamSectionCable()
NewMaterial ==
    /\ pc = "L59"
    /\ materials' = Append(materials,
                      [diameter |-> <<>>, young |-> <<>>, damping |-> <<>>])
    /\ beam_material' = Len(materials) + 1
    /\ Go
    /\ UNCHANGED <<env, iter, system, mesh, nodes, node, beam_nodes, elements,
                   element, truss, constraint_pos, solver, application, run,
                   trace, nSteps, stepResult>>

\* beam_material.SetDiameter(0.01)
SetDiameter ==
    /\ pc = "L60"
    /\ materials' = [materials EXCEPT ![beam_material].diameter = DIAMETER]
    /\ Go
    /\ UNCHANGED <<env, iter, system, mesh, beam_material, nodes, node,
                   beam_nodes, elements, element, truss, constraint_pos,
                   solver, application, run, trace, nSteps, stepResult>>

\* beam_material.SetYoungModulus(0.01e9)
SetYoungModulus ==
    /\ pc = "L61"
    /\ materials' = [materials EXCEPT ![beam_material].young = YOUNG_MODULUS]
    /\ Go
    /\ UNCHANGED <<env, iter, system, mesh, beam_material, nodes, node,
                   beam_nodes, elements, element, truss, constraint_pos,
                   solver, application, run, trace, nSteps, stepResult>>

\* beam_material.SetBeamRaleyghDamping(0.01)
SetBeamRaleyghDamping ==
    /\ pc = "L62"
    /\ materials' = [materials EXCEPT ![beam_material].damping = RALEYGH_DAMPING]
    /\ Go
    /\ UNCHANGED <<env, iter, system, mesh, beam_material, nodes, node,
                   beam_nodes, elements, element, truss, constraint_pos,
                   solver, application, run, trace, nSteps, stepResult>>

-----------------------------------------------------------------------------
(* 4. nodes *)

\* beam_nodes = []
NewBeamNodes ==
    /\ pc = "L76"
    /\ beam_nodes' = <<>>
    /\ Go
    /\ UNCHANGED <<env, iter, system, mesh, materials, beam_material, nodes,
                   node, elements, element, truss, constraint_pos, solver,
                   application, run, trace, nSteps, stepResult>>

\* length = 1.2
SetLength ==
    /\ pc = "L78"
    /\ \E l \in Lengths : env' = Bind(env, "length", l)
    /\ Go
    /\ UNCHANGED <<iter, system, mesh, materials, beam_material, nodes, node,
                   beam_nodes, elements, element, truss, constraint_pos,
                   solver, application, run, trace, nSteps, stepResult>>

\* N_nodes = 16
SetN_nodes ==
    /\ pc = "L79"
    /\ \E n \in NodeCounts : env' = Bind(env, "N_nodes", n)
    /\ Go
    /\ UNCHANGED <<iter, system, mesh, materials, beam_material, nodes, node,
                   beam_nodes, elements, element, truss, constraint_pos,
                   solver, application, run, trace, nSteps, stepResult>>

\* Variant: the node loop runs one time too few
NodeLoopCount_short(n) == RangeLen(n - 1)

\* number of iterations of the node loop: len(range(N_nodes))
NodeLoopCount(n) == RangeLen(n)

\* for i_ni in range(N_nodes) :
ForNodes ==
    /\ pc = "L80"
    /\ IF iter < NodeLoopCount(env["N_nodes"])
         THEN /\ env' = Bind(env, "i_ni", iter)
              /\ iter' = iter + 1
              /\ pc' = "L82"
         ELSE /\ env' = env
              /\ iter' = 0
              /\ pc' = "L108"
    /\ err' = err
    /\ UNCHANGED <<system, mesh, materials, beam_material, nodes, node,
                   beam_nodes, elements, element, truss, constraint_pos,
                   solver, application, run, trace, nSteps, stepResult>>

\* x = length * (i_ni / (N_nodes - 1)), kept as the exact fraction
\* (mantissa * i_ni / (N_nodes - 1)) * 10^exponent
PositionX(len, i, n) == [num |-> len[1] * i, den |-> n - 1, exp |-> len[2]]

\* position = ChVectorD(length * (i_ni / (N_nodes - 1)), 0.5, 0);
\* direction = ChVectorD(1.0, 0, 0); node = fea.ChNodeFEAxyzD(position, direction)
\* The true division raises ZeroDivisionError when N_nodes is 1.
NewNode ==
    /\ pc = "L82"
    /\ IF env["N_nodes"] - 1 = 0
         THEN /\ Raise("ZeroDivisionError")
              /\ UNCHANGED <<nodes, node>>
         ELSE /\ nodes' = Append(nodes,
                    [pos |-> << PositionX(env["length"], env["i_ni"], env["N_nodes"]),
                                <<5, -1>>, <<0, 0>> >>,
                     dir |-> << <<1, 0>>, <<0, 0>>, <<0, 0>> >>])
              /\ node' = Len(nodes) + 1
              /\ Go
    /\ UNCHANGED <<env, iter, system, mesh, materials, beam_material,
                   beam_nodes, elements, element, truss, constraint_pos,
                   solver, application, run, trace, nSteps, stepResult>>

\* mesh.AddNode(node)
AddNode ==
    /\ pc = "L93"
    /\ mesh' = [mesh EXCEPT !.nodes = Append(@, node)]
    /\ Go
    /\ UNCHANGED <<env, iter, system, materials, beam_material, nodes, node,
                   beam_nodes, elements, element, truss, constraint_pos,
                   solver, application, run, trace, nSteps, stepResult>>

\* beam_nodes.append(node); the loop body ends, control returns to line 80
AppendBeamNode ==
    /\ pc = "L96"
    /\ beam_nodes' = Append(beam_nodes, node)
    /\ pc' = "L80"
    /\ err' = err
    /\ UNCHANGED <<env, iter, system, mesh, materials, beam_material, nodes,
                   node, elements, element, truss, constraint_pos, solver,
                   application, run, trace, nSteps, stepResult>>

-----------------------------------------------------------------------------
(* 5. elements *)

\* Variant: the element loop runs one time too few
ElementLoopCount_short(n) == RangeLen(n - 2)

\* number of iterations of the element loop: len(range(N_nodes - 1))
ElementLoopCount(n) == RangeLen(n - 1)

\* for ie in range(N_nodes - 1) :
ForElements ==
    /\ pc = "L108"
    /\ IF iter < ElementLoopCount(env["N_nodes"])
         THEN /\ env' = Bind(env, "ie", iter)
              /\ iter' = iter + 1
              /\ pc' = "L110"
         ELSE /\ env' = env
              /\ iter' = 0
              /\ pc' = "L135"
    /\ err' = err
    /\ UNCHANGED <<system, mesh, materials, beam_material, nodes, node,
                   beam_nodes, elements, element, truss, constraint_pos,
                   solver, application, run, trace, nSteps, stepResult>>

\* element = fea.ChElementCableANCF()
NewElement ==
    /\ pc = "L110"
    /\ elements' = Append(elements, [nodes |-> <<>>, section |-> 0])
    /\ element' = Len(elements) + 1
    /\ Go
    /\ UNCHANGED <<env, iter, system, mesh, materials, beam_material, nodes,
                   node, beam_nodes, truss, constraint_pos, solver,
                   application, run, trace, nSteps, stepResult>>

\* the indices of the two nodes element ie is given: ie and ie + 1
FirstIndex(i) == i

\* Variant: the element is given the same node twice
SecondIndex_same(i) == i

SecondIndex(i) == i + 1

\* element.SetNodes(beam_nodes[ie], beam_nodes[ie + 1])
SetNodes ==
    /\ pc = "L113"
    /\ LET a == FirstIndex(env["ie"])
           b == SecondIndex(env["ie"])
       IN  IF IndexError(beam_nodes, a) \/ IndexError(beam_nodes, b)
             THEN /\ Raise("IndexError")
                  /\ UNCHANGED elements
             ELSE /\ elements' = [elements EXCEPT ![element].nodes =
                                    <<PyIndex(beam_nodes, a), PyIndex(beam_nodes, b)>>]
                  /\ Go
    /\ UNCHANGED <<env, iter, system, mesh, materials, beam_material, nodes,
                   node, beam_nodes, element, truss, constraint_pos, solver,
                   application, run, trace, nSteps, stepResult>>

\* Variant: every element is given a material object of its own, a copy of
\* beam_material
SetSection_ownCopy ==
    /\ pc = "L116"
    /\ materials' = Append(materials, materials[beam_material])
    /\ elements' = [elements EXCEPT ![element].section = Len(materials) + 1]
    /\ Go
    /\ UNCHANGED <<env, iter, system, mesh, beam_material, nodes, node,
                   beam_nodes, element, truss, constraint_pos, solver,
                   application, run, trace, nSteps, stepResult>>

\* element.SetSection(beam_material)
SetSection ==
    /\ pc = "L116"
    /\ elements' = [elements EXCEPT ![element].section = beam_material]
    /\ Go
    /\ UNCHANGED <<env, iter, system, mesh, materials, beam_material, nodes,
                   node, beam_nodes, element, truss, constraint_pos, solver,
                   application, run, trace, nSteps, stepResult>>

\* mesh.AddElement(element); the loop body ends, control returns to line 108
AddElement ==
    /\ pc = "L119"
    /\ mesh' = [mesh EXCEPT !.elements = Append(@, element)]
    /\ pc' = "L108"
    /\ err' = err
    /\ UNCHANGED <<env, iter, system, materials, beam_material, nodes, node,
                   beam_nodes, elements, element, truss, constraint_pos,
                   solver, application, run, trace, nSteps, stepResult>>

-----------------------------------------------------------------------------
(* 6. constraints *)

\* truss = chrono.ChBody()
NewTruss ==
    /\ pc = "L135"
    /\ truss' = [created |-> TRUE, fixed |-> FALSE]
    /\ Go
    /\ UNCHANGED <<env, iter, system, mesh, materials, beam_material, nodes,
                   node, beam_nodes, elements, element, constraint_pos,
                   solver, application, run, trace, nSteps, stepResult>>

\* truss.SetBodyFixed(True)
SetBodyFixed ==
    /\ pc = "L136"
    /\ truss' = [truss EXCEPT !.fixed = TRUE]
    /\ Go
    /\ UNCHANGED <<env, iter, system, mesh, materials, beam_material, nodes,
                   node, beam_nodes, elements, element, constraint_pos,
                   solver, application, run, trace, nSteps, stepResult>>

\* system.Add(truss)
AddTruss ==
    /\ pc = "L137"
    /\ system' = [system EXCEPT !.items = Append(@, "truss")]
    /\ Go
    /\ UNCHANGED <<env, iter, mesh, materials, beam_material, nodes, node,
                   beam_nodes, elements, element, truss, constraint_pos,
                   solver, application, run, trace, nSteps, stepResult>>

\* constraint_pos = fea.ChLinkPointFrame()
NewConstraint ==
    /\ pc = "L140"
    /\ constraint_pos' = [created |-> TRUE, node |-> 0, body |-> ""]
    /\ Go
    /\ UNCHANGED <<env, iter, system, mesh, materials, beam_material, nodes,
                   node, beam_nodes, elements, element, truss, solver,
                   application, run, trace, nSteps, stepResult>>

\* constraint_pos.Initialize(beam_nodes[0], truss)
\* The subscript raises IndexError when no node was created.
Initialize ==
    /\ pc = "L141"
    /\ IF IndexError(beam_nodes, AnchorIndex)
         THEN /\ Raise("IndexError")
              /\ UNCHANGED constraint_pos
         ELSE /\ constraint_pos' = [constraint_pos EXCEPT
                                      !.node = PyIndex(beam_nodes, AnchorIndex),
                                      !.body = "truss"]
              /\ Go
    /\ UNCHANGED <<env, iter, system, mesh, materials, beam_material, nodes,
                   node, beam_nodes, elements, element, truss, solver,
                   application, run, trace, nSteps, stepResult>>

\* system.Add(constraint_pos)
AddConstraint ==
    /\ pc = "L142"
    /\ system' = [system EXCEPT !.items = Append(@, "constraint_pos")]
    /\ Go
    /\ UNCHANGED <<env, iter, mesh, materials, beam_material, nodes, node,
                   beam_nodes, elements, element, truss, constraint_pos,
                   solver, application, run, trace, nSteps, stepResult>>

-----------------------------------------------------------------------------
(* 7. visualization assets *)

\* mvisualizebeamA = fea.ChVisualizationFEAmesh(mesh); ...; mesh.AddAsset(mvisualizebeamA)
AddAssetA ==
    /\ pc = "L183"
    /\ mesh' = [mesh EXCEPT !.assets = Append(@, "mvisualizebeamA")]
    /\ Go
    /\ UNCHANGED <<env, iter, system, materials, beam_material, nodes, node,
                   beam_nodes, elements, element, truss, constraint_pos,
                   solver, application, run, trace, nSteps, stepResult>>

\* mvisualizebeamC = fea.ChVisualizationFEAmesh(mesh); ...; mesh.AddAsset(mvisualizebeamC)
AddAssetC ==
    /\ pc = "L190"
    /\ mesh' = [mesh EXCEPT !.assets = Append(@, "mvisualizebeamC")]
    /\ Go
    /\ UNCHANGED <<env, iter, system, materials, beam_material, nodes, node,
                   beam_nodes, elements, element, truss, constraint_pos,
                   solver, application, run, trace, nSteps, stepResult>>

-----------------------------------------------------------------------------
(* 8. solver and timestepper *)

\* solver = chrono.ChSolverMINRES()
NewSolver ==
    /\ pc = "L206"
    /\ solver' = [created |-> TRUE, maxIterations |-> 0, tolerance |-> <<>>,
                  warmStart |-> FALSE]
    /\ Go
    /\ UNCHANGED <<env, iter, system, mesh, materials, beam_material, nodes,
                   node, beam_nodes, elements, element, truss,
                   constraint_pos, application, run, trace, nSteps,
                   stepResult>>

\* solver.SetMaxIterations(200)
SetMaxIterations ==
    /\ pc = "L207"
    /\ solver' = [solver EXCEPT !.maxIterations = MAX_ITERATIONS]
    /\ Go
    /\ UNCHANGED <<env, iter, system, mesh, materials, beam_material, nodes,
                   node, beam_nodes, elements, element, truss,
                   constraint_pos, application, run, trace, nSteps,
                   stepResult>>

\* solver.SetTolerance(1e-10)
SetTolerance ==
    /\ pc = "L208"
    /\ solver' = [solver EXCEPT !.tolerance = TOLERANCE]
    /\ Go
    /\ UNCHANGED <<env, iter, system, mesh, materials, beam_material, nodes,
                   node, beam_nodes, elements, element, truss,
                   constraint_pos, application, run, trace, nSteps,
                   stepResult>>

\* solver.EnableWarmStart(True)
EnableWarmStart ==
    /\ pc = "L209"
    /\ solver' = [solver EXCEPT !.warmStart = TRUE]
    /\ Go
    /\ UNCHANGED <<env, iter, system, mesh, materials, beam_material, nodes,
                   node, beam_nodes, elements, element, truss,
                   constraint_pos, application, run, trace, nSteps,
                   stepResult>>

\* system.SetSolver(solver)
SetSolver ==
    /\ pc = "L210"
    /\ system' = [system EXCEPT !.solver = SolverType]
    /\ Go
    /\ UNCHANGED <<env, iter, mesh, materials, beam_material, nodes, node,
                   beam_nodes, elements, element, truss, constraint_pos,
                   solver, application, run, trace, nSteps, stepResult>>

\* system.SetTimestepperType(chrono.ChTimestepper.Type_EULER_IMPLICIT_LINEARIZED)
SetTimestepperType ==
    /\ pc = "L213"
    /\ system' = [system EXCEPT !.timestepper = TimestepperType]
    /\ Go
    /\ UNCHANGED <<env, iter, mesh, materials, beam_material, nodes, node,
                   beam_nodes, elements, element, truss, constraint_pos,
                   solver, application, run, trace, nSteps, stepResult>>

-----------------------------------------------------------------------------
(* 9. Irrlicht application *)

\* application = chronoirr.ChIrrApp(system, ...); AddLogo ... AssetUpdateAll
NewApplication ==
    /\ pc = "L221"
    /\ application' = [created |-> TRUE, system |-> system.created,
                       timestep |-> <<>>, tryRealtime |-> FALSE]
    /\ Go
    /\ UNCHANGED <<env, iter, system, mesh, materials, beam_material, nodes,
                   node, beam_nodes, elements, element, truss,
                   constraint_pos, solver, run, trace, nSteps, stepResult>>

\* application.SetTimestep(0.01)
SetTimestep ==
    /\ pc = "L243"
    /\ application' = [application EXCEPT !.timestep = TIMESTEP]
    /\ Go
    /\ UNCHANGED <<env, iter, system, mesh, materials, beam_material, nodes,
                   node, beam_nodes, elements, element, truss,
                   constraint_pos, solver, run, trace, nSteps, stepResult>>

\* application.SetTryRealtime(True)
SetTryRealtime ==
    /\ pc = "L244"
    /\ application' = [application EXCEPT !.tryRealtime = TRUE]
    /\ Go
    /\ UNCHANGED <<env, iter, system, mesh, materials, beam_material, nodes,
                   node, beam_nodes, elements, element, truss,
                   constraint_pos, solver, run, trace, nSteps, stepResult>>

-----------------------------------------------------------------------------
(* 10. render/step loop *)

\* Variant: the body is entered whatever run() returned
WhileNext_always(r) == "L249"

\* where the while statement goes on the value r of GetDevice().run()
WhileNext(r) == IF r THEN "L249" ELSE "done"

\* while application.GetDevice().run() :
\* The device decides; the model lets it answer true at most MaxSteps times.
Run ==
    /\ pc = "L247"
    /\ \E r \in BOOLEAN :
         /\ r => nSteps < MaxSteps
         /\ run' = IF r THEN "true" ELSE "false"
         /\ pc' = WhileNext(r)
    /\ trace' = <<>>
    /\ err' = err
    /\ UNCHANGED <<env, iter, system, mesh, materials, beam_material, nodes,
                   node, beam_nodes, elements, element, truss,
                   constraint_pos, solver, application, nSteps, stepResult>>

\* application.BeginScene()
BeginScene ==
    /\ pc = "L249"
    /\ trace' = Append(trace, "BeginScene")
    /\ Go
    /\ UNCHANGED <<env, iter, system, mesh, materials, beam_material, nodes,
                   node, beam_nodes, elements, element, truss,
                   constraint_pos, solver, application, run, nSteps,
                   stepResult>>

\* application.DrawAll()
DrawAll ==
    /\ pc = "L252"
    /\ trace' = Append(trace, "DrawAll")
    /\ Go
    /\ UNCHANGED <<env, iter, system, mesh, materials, beam_material, nodes,
                   node, beam_nodes, elements, element, truss,
                   constraint_pos, solver, application, run, nSteps,
                   stepResult>>

\* chronoirr.drawGrid(application.GetVideoDriver(), ...)
DrawGrid ==
    /\ pc = "L255"
    /\ trace' = Append(trace, "drawGrid")
    /\ Go
    /\ UNCHANGED <<env, iter, system, mesh, materials, beam_material, nodes,
                   node, beam_nodes, elements, element, truss,
                   constraint_pos, solver, application, run, nSteps,
                   stepResult>>

\* Variant: a step that did not converge is reported by an exception
DoStep_raising ==
    /\ pc = "L260"
    /\ \E r \in {"converged", "not_converged"} :
         /\ stepResult' = r
         /\ IF r = "converged" THEN Go ELSE Raise("SolverNonConvergenceError")
    /\ nSteps' = nSteps + 1
    /\ trace' = Append(trace, "DoStep")
    /\ UNCHANGED <<env, iter, system, mesh, materials, beam_material, nodes,
                   node, beam_nodes, elements, element, truss,
                   constraint_pos, solver, application, run>>

\* Variant: a step that did not converge halves the step size for the next
DoStep_adaptive ==
    /\ pc = "L260"
    /\ \E r \in {"converged", "not_converged"} :
         /\ stepResult' = r
         /\ application' = IF r = "converged" THEN application
                           ELSE [application EXCEPT !.timestep = <<5, -3>>]
    /\ nSteps' = nSteps + 1
    /\ trace' = Append(trace, "DoStep")
    /\ Go
    /\ UNCHANGED <<env, iter, system, mesh, materials, beam_material, nodes,
                   node, beam_nodes, elements, element, truss,
                   constraint_pos, solver, run>>

\* application.DoStep(): one synchronous call that advances the system by
\* application.timestep.  Whether the solver converges within its iteration
\* cap is decided inside the engine; the call returns nothing and raises
\* nothing, so the script sees no difference.  The coordinates the engine
\* gives the nodes are computed outside the script and are not modelled.
DoStep ==
    /\ pc = "L260"
    /\ \E r \in {"converged", "not_converged"} : stepResult' = r
    /\ nSteps' = nSteps + 1
    /\ trace' = Append(trace, "DoStep")
    /\ Go
    /\ UNCHANGED <<env, iter, system, mesh, materials, beam_material, nodes,
                   node, beam_nodes, elements, element, truss,
                   constraint_pos, solver, application, run>>

\* application.EndScene(); the loop body ends, control returns to line 247
EndScene ==
    /\ pc = "L263"
    /\ trace' = Append(trace, "EndScene")
    /\ pc' = "L247"
    /\ err' = err
    /\ UNCHANGED <<env, iter, system, mesh, materials, beam_material, nodes,
                   node, beam_nodes, elements, element, truss,
                   constraint_pos, solver, application, run, nSteps,
                   stepResult>>

-----------------------------------------------------------------------------

Next ==
    \/ NewSystem \/ Set_G_acc \/ NewMesh \/ AddMesh
    \/ NewMaterial \/ SetDiameter \/ SetYoungModulus \/ SetBeamRaleyghDamping
    \/ NewBeamNodes \/ SetLength \/ SetN_nodes
    \/ ForNodes \/ NewNode \/ AddNode \/ AppendBeamNode
    \/ ForElements \/ NewElement \/ SetNodes \/ SetSection \/ AddElement
    \/ NewTruss \/ SetBodyFixed \/ AddTruss
    \/ NewConstraint \/ Initialize \/ AddConstraint
    \/ AddAssetA \/ AddAssetC
    \/ NewSolver \/ SetMaxIterations \/ SetTolerance \/ EnableWarmStart
    \/ SetSolver \/ SetTimestepperType
    \/ NewApplication \/ SetTimestep \/ SetTryRealtime
    \/ Run \/ BeginScene \/ DrawAll \/ DrawGrid \/ DoStep \/ EndScene

Spec == Init /\ [][Next]_vars

-----------------------------------------------------------------------------
(* Vocabulary of the properties *)

\* position of statement l in the script
LineIndex(l) == CHOOSE k \in 1 .. Len(Program) : Program[k] = l

\* control is beyond statement l (and the script has not been aborted)
Past(l) == pc = "done" \/ (pc # "error" /\ LineIndex(pc) > LineIndex(l))

Range(s) == { s[i] : i \in DOMAIN s }

Injective(s) == \A i, j \in DOMAIN s : s[i] = s[j] => i = j

Configured == {"length", "N_nodes"} \subseteq DOMAIN env

N == env["N_nodes"]

\* k-th node of the cable, k counted from 0 as in the script
NodeAt(k) == beam_nodes[k + 1]

\* k-th element of the mesh, k counted from 0
ElementAt(k) == elements[mesh.elements[k + 1]]

\* number of entries named x among the items added to the system
CountItems(x) == Cardinality({ i \in DOMAIN system.items : system.items[i] = x })

\* number of calls named x made on the application in this iteration
CountCalls(x) == Cardinality({ i \in DOMAIN trace : trace[i] = x })

\* the calls of one iteration of the loop, in the order of lines 249-263
IterationOrder == <<"BeginScene", "DrawAll", "drawGrid", "DoStep", "EndScene">>

LoopState ==
    IF run = "false" THEN "Stopped"
    ELSE IF nSteps > 0 THEN "Running"
    ELSE "Idle"

-----------------------------------------------------------------------------
(* C1: for every node count N >= 2, once the element loop has finished    *)
(* the mesh holds exactly N-1 elements and element k connects node k to   *)
(* node k+1, the N nodes being pairwise different objects and no element  *)
(* being in the mesh twice: consecutive nodes are connected by exactly    *)
(* one element, without gap or overlap.                                   *)
C1_ElementsChainNodes ==
    (Past("L119") /\ N >= 2) =>
        /\ Len(beam_nodes) = N
        /\ Injective(beam_nodes)
        /\ Len(mesh.elements) = N - 1
        /\ Injective(mesh.elements)
        /\ \A k \in 0 .. N - 2 : ElementAt(k).nodes = <<NodeAt(k), NodeAt(k + 1)>>

\* the element loop has finished for the 16 nodes of the source
C1_Witness == Past("L119") /\ N = 16 /\ Len(mesh.elements) = 15

-----------------------------------------------------------------------------
(* C2: every node an element or the anchor constraint refers to is a node *)
(* that was created, added to the mesh and appended to beam_nodes; it     *)
(* sits in beam_nodes at an index within 0..N_nodes-1; the two nodes of   *)
(* an element are distinct; and whenever SetNodes is about to run, the    *)
(* two indices it uses are within the nodes created so far.               *)
C2_ReferencedNodesExist ==
    /\ \A e \in DOMAIN elements :
         elements[e].nodes # <<>> =>
            /\ \A r \in Range(elements[e].nodes) :
                 /\ r \in DOMAIN nodes
                 /\ r \in Range(mesh.nodes)
                 /\ \E k \in 0 .. N - 1 : k < Len(beam_nodes) /\ NodeAt(k) = r
            /\ elements[e].nodes[1] # elements[e].nodes[2]
    /\ constraint_pos.node # 0 =>
            /\ constraint_pos.node \in DOMAIN nodes
            /\ constraint_pos.node \in Range(mesh.nodes)
            /\ \E k \in 0 .. N - 1 :
                 k < Len(beam_nodes) /\ NodeAt(k) = constraint_pos.node
    /\ pc = "L113" =>
            /\ {FirstIndex(env["ie"]), SecondIndex(env["ie"])} \subseteq 0 .. N - 1
            /\ SecondIndex(env["ie"]) < Len(beam_nodes)
            /\ Range(beam_nodes) \subseteq Range(mesh.nodes)

\* both kinds of reference have been made: elements and the anchor
C2_Witness ==
    /\ constraint_pos.node # 0
    /\ Len(mesh.elements) >= 2
    /\ \A e \in DOMAIN elements : elements[e].nodes # <<>>

-----------------------------------------------------------------------------
(* C3 *)

\* cable length zero, or a node count of at most 1
InvalidConfig == Configured /\ (env["length"][1] = 0 \/ N <= 1)

NothingBuilt ==
    /\ ~ system.created
    /\ ~ mesh.created
    /\ system.items = <<>>
    /\ nodes = <<>>
    /\ elements = <<>>
    /\ ~ truss.created
    /\ ~ constraint_pos.created

(* C3 as stated: an invalid configuration (length zero, N_nodes <= 1) is  *)
(* rejected with a validation error before anything is built: the script  *)
(* never reaches the stepping loop, no step is executed, and when it has  *)
(* been rejected nothing has been created.                                *)
C3_InvalidConfigRejected ==
    InvalidConfig =>
        /\ nSteps = 0
        /\ pc \notin LoopLines \cup {"done"}
        /\ pc = "error" => (err = "ValidationError" /\ NothingBuilt)

(* C3 as amended: the script validates nothing.  The system and the mesh  *)
(* exist, the mesh added to the system, before the configuration is read. *)
(* N_nodes = 1 aborts with ZeroDivisionError at the first node, before    *)
(* any node exists; N_nodes <= 0 aborts with IndexError at                *)
(* constraint_pos.Initialize, the fixed truss already added; in both      *)
(* cases no step is executed.  Nothing else aborts the script: a zero     *)
(* length with N_nodes >= 2 is accepted.                                  *)
C3_NoValidation ==
    Configured =>
        /\ system.created /\ mesh.created /\ system.items # <<>>
        /\ system.items[1] = "mesh"
        /\ N = 1 => (nSteps = 0 /\ ~ Past("L82") /\ nodes = <<>>)
        /\ N <= 0 => (nSteps = 0 /\ ~ Past("L141") /\ nodes = <<>>)
        /\ pc = "error" =>
              \/ /\ N = 1
                 /\ err = "ZeroDivisionError"
                 /\ ~ truss.created
              \/ /\ N <= 0
                 /\ err = "IndexError"
                 /\ truss.created /\ truss.fixed /\ CountItems("truss") = 1
                 /\ constraint_pos.created /\ constraint_pos.node = 0
        /\ (N >= 2 /\ Past("L79")) => err = ""

\* the script was aborted at the first node of a one-node cable, the
\* system and the mesh already built
C3_Witness ==
    /\ pc = "error" /\ Configured /\ N = 1
    /\ system.created /\ mesh.created

-----------------------------------------------------------------------------
(* C4: the loop is Idle until the first DoStep, Running after it and      *)
(* Stopped once run() has returned false.  Stopped is terminal: the       *)
(* script is done, and no call is made on the application and no step is  *)
(* taken after it; a call is made only after run() returned true; and     *)
(* neither Running nor Stopped is ever followed by Idle.                  *)
C4_StoppedIsTerminal ==
    /\ [](run = "false" => pc = "done")
    /\ [][ /\ LoopState = "Stopped" =>
                (LoopState' = "Stopped" /\ UNCHANGED <<nSteps, trace>>)
           /\ LoopState = "Running" => LoopState' # "Idle"
           /\ (trace' # trace /\ trace' # <<>>) => (run = "true" /\ run' = "true")
           /\ nSteps' # nSteps => (run = "true" /\ nSteps' = nSteps + 1)
         ]_vars

\* the loop went Idle -> Running -> Stopped
C4_Witness == LoopState = "Stopped" /\ nSteps >= 2 /\ pc = "done"

-----------------------------------------------------------------------------
-----------------------------------------------------------------------------
(* C6: in every iteration the calls are BeginScene, DrawAll, drawGrid,    *)
(* DoStep, EndScene in this order, each once: the calls made so far are   *)
(* always a prefix of that order, both draw calls are complete when       *)
(* DoStep is about to run, none follows it before EndScene, and an        *)
(* iteration that has ended made all five calls.                          *)
C6_DrawsBetweenSteps ==
    /\ Len(trace) <= Len(IterationOrder)
    /\ trace = SubSeq(IterationOrder, 1, Len(trace))
    /\ pc = "L260" => trace = <<"BeginScene", "DrawAll", "drawGrid">>
    /\ pc = "L263" => trace = <<"BeginScene", "DrawAll", "drawGrid", "DoStep">>
    /\ (pc = "L247" /\ run = "true") => trace = IterationOrder
    /\ pc \in {"L249", "done"} => trace = <<>>

\* a second iteration has ended
C6_Witness == pc = "L247" /\ run = "true" /\ trace = IterationOrder /\ nSteps >= 2

-----------------------------------------------------------------------------
\* no step taken in the loop changes the configuration or the topology
LoopKeepsConfiguration ==
    pc \in LoopLines \cup {"done"} =>
        UNCHANGED <<system, solver, application, materials, beam_material,
                    env, mesh, Len(nodes), beam_nodes, elements, truss,
                    constraint_pos>>

(* C7: in the loop every configuration input has the value the script     *)
(* gave it (gravity (0, -9.81, 0), iteration cap 200, tolerance 1e-10,    *)
(* step size 0.01, the material's diameter, modulus and damping, the      *)
(* timestepper type) and no step of the loop changes any of them, the     *)
(* node count, the cable length, or the nodes, elements and constraints   *)
(* of the system.                                                         *)
C7_ConfigurationImmutable ==
    /\ [](pc \in LoopLines \cup {"done"} =>
            /\ system.G_acc = G_ACC
            /\ system.solver = SolverType
            /\ system.timestepper = TimestepperType
            /\ solver.maxIterations = 200
            /\ solver.tolerance = TOLERANCE
            /\ application.timestep = TIMESTEP
            /\ materials[beam_material] =
                 [diameter |-> DIAMETER, young |-> YOUNG_MODULUS,
                  damping |-> RALEYGH_DAMPING])
    /\ [][LoopKeepsConfiguration]_vars

\* two iterations of the loop have run
C7_Witness == pc = "L247" /\ nSteps >= 2

-----------------------------------------------------------------------------
(* C8: there is one material object; every element that has a section has *)
(* that object, beam_material, as its section, every element in the mesh  *)
(* has a section, and whenever an element has a section the material's    *)
(* diameter, Young modulus and damping are the values set at lines 60-62. *)
C8_OneSharedMaterial ==
    /\ Len(materials) <= 1
    /\ \A e \in DOMAIN elements :
         elements[e].section # 0 =>
            /\ elements[e].section = beam_material
            /\ materials[beam_material] =
                 [diameter |-> DIAMETER, young |-> YOUNG_MODULUS,
                  damping |-> RALEYGH_DAMPING]
    /\ \A e \in Range(mesh.elements) : elements[e].section = beam_material

\* several elements carry the material and the loop has stepped
C8_Witness ==
    /\ Len(mesh.elements) >= 3
    /\ \A e \in Range(mesh.elements) : elements[e].section = beam_material
    /\ nSteps >= 1

-----------------------------------------------------------------------------
(* C9: the system never holds more than one constraint; once it has been  *)
(* added it is the only one, it binds node 0 to the truss, the truss is   *)
(* fixed and in the system, and no other node of the cable, the last one  *)
(* in particular, is bound by it.                                         *)
C9_OneAnchorAtNodeZero ==
    /\ CountItems("constraint_pos") <= 1
    /\ Past("L142") =>
          /\ CountItems("constraint_pos") = 1
          /\ CountItems("truss") = 1
          /\ truss.fixed
          /\ constraint_pos.body = "truss"
          /\ constraint_pos.node = NodeAt(0)
          /\ N >= 2
          /\ NodeAt(N - 1) # constraint_pos.node
          /\ \A k \in 1 .. N - 1 : NodeAt(k) # constraint_pos.node

\* the anchor is in the system of the 16-node cable and the loop runs
C9_Witness == Past("L142") /\ N = 16 /\ nSteps >= 1

-----------------------------------------------------------------------------
(* C10: when DoStep is about to run, and ever after a DoStep has run, all *)
(* N_nodes nodes and N_nodes-1 elements are in the mesh, the mesh, the    *)
(* fixed truss and the initialized anchor are in the system, the solver   *)
(* is MINRES and no longer the default, the timestepper type is selected  *)
(* and the step size is 0.01.                                             *)
C10_NoStepBeforeSetup ==
    (pc = "L260" \/ nSteps > 0) =>
        /\ Len(mesh.nodes) = N
        /\ Len(mesh.elements) = N - 1
        /\ \A e \in Range(mesh.elements) :
             elements[e].nodes # <<>> /\ elements[e].section # 0
        /\ system.items = <<"mesh", "truss", "constraint_pos">>
        /\ truss.fixed
        /\ constraint_pos.node # 0
        /\ system.solver = "MINRES"
        /\ system.solver # DefaultSolver
        /\ solver.maxIterations = 200
        /\ system.timestepper = "EULER_IMPLICIT_LINEARIZED"
        /\ application.created /\ application.system
        /\ application.timestep = TIMESTEP

\* the first DoStep is about to run
C10_Witness == pc = "L260" /\ nSteps = 0

=============================================================================
